---- MODULE Spec2Model ----
(***************************************************************************)
(* Practice tracker (rust-todo): the users / practice_action /            *)
(* practice_record tables of db.rs and the request handlers of main.rs.   *)
(* Every SQL statement runs on the pool in autocommit mode, so one        *)
(* statement is one atomic step and the statements of concurrent requests *)
(* interleave.                                                             *)
(***************************************************************************)
EXTENDS Integers, Sequences, FiniteSets, TLC

\* ---- bounds of the model ----
\* actions created + records + finish requests in flight + clock ticks of a run
MaxWork == 5
\* the sequential single-user specification (SeqSpec) gets four more
SeqMaxWork == MaxWork + 4
\* the specification of the requests with their headers (AuthSpec) gets one less
AuthMaxWork == MaxWork - 1
\* actions created in a run, one more in SeqSpec
MaxActions == 2
SeqMaxActions == MaxActions + 1
\* and one less in AuthSpec
AuthMaxActions == MaxActions - 1
\* finish requests in flight together
MaxInFlight == 2
\* clock ticks of one calendar day
TicksPerDay == 2

Usernames == {"ann", "bob"}
SeqUsernames == {"ann"}
ActionNames == {"read"}
\* the passwords users register with, and those a login is tried with
Passwords == {"pw"}
LoginPasswords == {"pw", "guess"}
\* the salts bcrypt draws
Salts == {"salt"}
Procs == 1..MaxInFlight

\* SQL NULL / Option::None of a nullable timestamp column
NULL == -1

VARIABLES
    users,      \* table users, in id order
    actions,    \* table practice_action, in id order
    records,    \* table practice_record, in id order
    clock,      \* OffsetDateTime::now_utc() / the data store's clock
    session_tz, \* TimeZone of the sessions of the pool, as an offset from UTC
                \* in ticks
    pc,         \* position of each create_action / finish_action request in
                \* flight
    req,        \* auth_user.user_id, Path(id) and req.name of each request in
                \* flight
    action_,    \* the reply to the SELECT of get_practice_action that has not
                \* reached the task yet: the id of the row, 0 for none
    today_,     \* the now_utc() can_finish_today took its local `today` from
    can_,       \* the reply to the COUNT of can_finish_today that has not reached
                \* the task yet, as the result can_finish_today makes of it
    now_,       \* the local `now` of create_practice_action and of
                \* create_practice_record
    began,      \* history (SeqSpec): clock when the request in flight arrived
    response,   \* the response sent by the last step, if it sent one
    log,        \* the error! line written by the last step, if it wrote one
    header,     \* (AuthSpec) the Authorization header the AuthUser extractor
                \* read in the last step
    issued      \* history (AuthSpec): the tokens handed out, with the clock
                \* at that moment

vars == <<users, actions, records, clock, session_tz, pc, req, action_, today_, can_,
          now_, began,
          response, log, header, issued>>

\* ---- pure helpers ----

\* DATE(ts) of a TIMESTAMPTZ in a session whose zone is tz ticks ahead of UTC
DateIn(ts, tz) == (ts + tz) \div TicksPerDay

\* OffsetDateTime::date() of a UTC timestamp
UtcDate(ts) == ts \div TicksPerDay

UserIds == 1..Len(users)

\* ---- auth.rs: tokens ----

\* the signing secret: env JWT_SECRET, or this fallback
JWT_SECRET == "ThisISMYSectKeyXHaxx1234"
\* a secret that is not the service's
OtherSecret == "not-the-service-secret"

\* HMAC of the header and claims of a token under a key: equal exactly when
\* the key and the signed content are equal
Sign(key, alg, sub, exp) == <<key, alg, sub, exp>>

\* a compact JWS: `segments` dot-separated parts, of which a well-formed
\* token has three; exp = NULL when the claims carry no exp
Token(segments, alg, sub, exp, sig) ==
    [segments |-> segments, alg |-> alg, sub |-> sub, exp |-> exp, sig |-> sig]

NoToken == Token(0, "", 0, NULL, <<>>)

\* encode(&header, &claims, &key) with Header::default() = HS256 and
\* Claims { sub }
encode(alg, sub, exp, key) == Token(3, alg, sub, exp, Sign(key, alg, sub, exp))

\* bcrypt::hash with the salt it drew: the hash carries the salt and the
\* digest of salt and password
bcrypt_hash(password, salt) == [salt |-> salt, digest |-> <<salt, password>>]

\* hash_password: bcrypt::hash(password, DEFAULT_COST), which draws the salt
hash_password(password) == {bcrypt_hash(password, salt) : salt \in Salts}

\* verify_password: bcrypt::verify hashes the password with the salt of the
\* hash and compares
verify_password(password, hash) == bcrypt_hash(password, hash.salt) = hash

\* create_token(user_id)
create_token(user_id) == encode("HS256", user_id, NULL, JWT_SECRET)

\* Validation: the algorithm accepted, the registered claims required to be
\* present, and whether exp is compared with the current time
Validation(alg, required_spec_claims, validate_exp) ==
    [alg |-> alg, required_spec_claims |-> required_spec_claims,
     validate_exp |-> validate_exp]

\* variant: Validation::new(HS256) left as the library builds it
validation_default == Validation("HS256", {"exp"}, TRUE)

\* Validation::new(HS256); required_spec_claims = {}; validate_exp = false
validation == Validation("HS256", {}, FALSE)

\* variant: the signature is not verified
decode_unverified(token, key, v, t) ==
    IF token.segments # 3 THEN [ok |-> FALSE, sub |-> 0, error |-> "InvalidToken"]
    ELSE IF token.alg # v.alg THEN [ok |-> FALSE, sub |-> 0, error |-> "InvalidAlgorithm"]
    ELSE IF "exp" \in v.required_spec_claims /\ token.exp = NULL
         THEN [ok |-> FALSE, sub |-> 0, error |-> "MissingRequiredClaim"]
    ELSE IF v.validate_exp /\ token.exp # NULL /\ token.exp < t
         THEN [ok |-> FALSE, sub |-> 0, error |-> "ExpiredSignature"]
    ELSE [ok |-> TRUE, sub |-> token.sub, error |-> ""]

\* decode::<Claims>(token, &key, &validation) at time t: the structure, the
\* algorithm, the signature, then the claims
decode(token, key, v, t) ==
    IF token.segments # 3 THEN [ok |-> FALSE, sub |-> 0, error |-> "InvalidToken"]
    ELSE IF token.alg # v.alg THEN [ok |-> FALSE, sub |-> 0, error |-> "InvalidAlgorithm"]
    ELSE IF token.sig # Sign(key, token.alg, token.sub, token.exp)
         THEN [ok |-> FALSE, sub |-> 0, error |-> "InvalidSignature"]
    ELSE IF "exp" \in v.required_spec_claims /\ token.exp = NULL
         THEN [ok |-> FALSE, sub |-> 0, error |-> "MissingRequiredClaim"]
    ELSE IF v.validate_exp /\ token.exp # NULL /\ token.exp < t
         THEN [ok |-> FALSE, sub |-> 0, error |-> "ExpiredSignature"]
    ELSE [ok |-> TRUE, sub |-> token.sub, error |-> ""]

\* an Authorization header: absent, or a scheme word and what follows it
Header(present, scheme, token) ==
    [present |-> present, scheme |-> scheme, token |-> token]

NoHeader == Header(FALSE, "", NoToken)

\* the value of `header` after a step in which the AuthUser extractor did
\* not run
NotExtracted == Header(FALSE, "-", NoToken)

Bearer(token) == Header(TRUE, "Bearer", token)

\* AuthUser::from_request_parts at time t: the result, with user_id = 0 and
\* the message of the rejection when there is no AuthUser
from_request_parts(h, t) ==
    IF ~ h.present \/ h.scheme # "Bearer"
    THEN [ok |-> FALSE, user_id |-> 0, message |-> "Missing authorization header"]
    ELSE LET token_data == decode(h.token, JWT_SECRET, validation, t)
         IN IF ~ token_data.ok
            THEN [ok |-> FALSE, user_id |-> 0, message |-> "Invalid token"]
            ELSE [ok |-> TRUE, user_id |-> token_data.sub, message |-> ""]

\* ---- responses ----

Resp(op, user_id, id, status, message, record, rows) ==
    [op |-> op, user_id |-> user_id, id |-> id, status |-> status,
     message |-> message, record |-> record, rows |-> rows, token |-> NoToken]

NoResponse == Resp("none", 0, 0, "none", "", 0, <<>>)

\* ---- main.rs: storage errors ----

\* a sqlx::Error: its variant, the SQLSTATE of a Database error and the text
\* of what it carries: the message of the DatabaseError, the io::Error of Io,
\* the text of a variant that carries nothing
SqlxError(kind, code, detail) == [kind |-> kind, code |-> code, detail |-> detail]

RowNotFound == SqlxError("RowNotFound", "", "no rows returned by a query that expected to return at least one row")
UniqueViolation(constraint) ==
    SqlxError("Database", "23505",
              "duplicate key value violates unique constraint \"" \o constraint \o "\"")
ForeignKeyViolation == SqlxError("Database", "23503", "insert or update on table violates foreign key constraint")
PoolTimedOut == SqlxError("PoolTimedOut", "", "pool timed out while waiting for an open connection")
Io == SqlxError("Io", "", "connection reset by peer")

\* Display of sqlx::Error: #[error("error returned from database: {0}")],
\* #[error("error communicating with database: {0}")], and the text of the
\* variants that carry nothing
Display(err) ==
    IF err.kind = "Database" THEN "error returned from database: " \o err.detail
    ELSE IF err.kind = "Io" THEN "error communicating with database: " \o err.detail
    ELSE err.detail

\* the storage errors a statement may come back with
SqlxErrors == {RowNotFound, UniqueViolation("users_username_key"),
               ForeignKeyViolation, PoolTimedOut, Io}

\* DatabaseError::is_unique_violation
is_unique_violation(e) == e.code = "23505"

\* variant: the text of the error is sent to the caller
AppError_from_with_detail(err) ==
    IF err.kind = "RowNotFound" THEN [status |-> "NotFound", message |-> "Not found"]
    ELSE IF err.kind = "Database" /\ is_unique_violation(err)
         THEN [status |-> "Conflict", message |-> "Resource already exists"]
    ELSE [status |-> "Internal", message |-> Display(err)]

\* impl From<sqlx::Error> for AppError
AppError_from(err) ==
    IF err.kind = "RowNotFound" THEN [status |-> "NotFound", message |-> "Not found"]
    ELSE IF err.kind = "Database"
         THEN IF is_unique_violation(err)
              THEN [status |-> "Conflict", message |-> "Resource already exists"]
              ELSE [status |-> "Internal", message |-> "Internal server error"]
    ELSE [status |-> "Internal", message |-> "Internal server error"]

\* the error! line From<sqlx::Error> writes: a fixed line for RowNotFound, the
\* Display of the DatabaseError e (its message) for Database(e), and the
\* Display of err in the last arm
LogLine(err) ==
    IF err.kind = "RowNotFound"
    THEN [prefix |-> "Database error: ", text |-> "Row not found"]
    ELSE IF err.kind = "Database"
         THEN [prefix |-> "Database error: ", text |-> err.detail]
    ELSE [prefix |-> "Unexpected database error: ", text |-> Display(err)]

NoLog == [prefix |-> "", text |-> ""]

\* the response to a request op of user u on id that ended in `?` on a
\* storage error
ErrSqlx(op, u, id, err) ==
    Resp(op, u, id, AppError_from(err).status, AppError_from(err).message, 0, <<>>)

\* AppError values built by finish_action and by From<sqlx::Error>
ErrActionNotFound(u, id) == Resp("finish", u, id, "NotFound", "Action not found", 0, <<>>)
ErrAlreadyCompleted(u, id) == Resp("finish", u, id, "Conflict", "Already completed today", 0, <<>>)
ErrRowNotFound(u, id) == ErrSqlx("finish", u, id, RowNotFound)
ErrInternal(u, id) == ErrSqlx("finish", u, id, Io)
OkRecord(u, id, record) == Resp("finish", u, id, "ok", "", record, <<>>)

\* the rejection of AuthUser::from_request_parts
ErrUnauthorized(op, message) == Resp(op, 0, 0, "Unauthorized", message, 0, <<>>)

\* variant: the lookup forgets `AND user_id = $2`
get_practice_action_any_owner(user_id, id) ==
    IF id \in 1..Len(actions) THEN id ELSE 0

\* SELECT ... FROM practice_action WHERE id = $1 AND user_id = $2
\* (0 stands for None)
get_practice_action(user_id, id) ==
    IF id \in 1..Len(actions) /\ actions[id].user_id = user_id
    THEN id ELSE 0

\* SELECT EXISTS(SELECT 1 FROM practice_action WHERE id = $1 AND user_id = $2)
action_exists(user_id, action_id) ==
    \E i \in 1..Len(actions) : actions[i].id = action_id /\ actions[i].user_id = user_id

\* rows of practice_record of one action (row positions)
RecordsOf(action_id) == {i \in 1..Len(records) : records[i].action_id = action_id}

\* variant: the check compares the timestamps instead of their dates
can_finish_today_same_instant(user_id, action_id, t) ==
    {i \in RecordsOf(action_id) :
        /\ action_id \in 1..Len(actions)
        /\ actions[action_id].user_id = user_id
        /\ records[i].finish_time = t} = {}

\* variant: the check forgets the date condition
can_finish_today_ever(user_id, action_id, t) ==
    {i \in RecordsOf(action_id) :
        /\ action_id \in 1..Len(actions)
        /\ actions[action_id].user_id = user_id} = {}

\* variant: the check reads the denormalized last_finish_time column
can_finish_today_by_column(user_id, action_id, t) ==
    ~ \E i \in 1..Len(actions) :
        /\ actions[i].id = action_id
        /\ actions[i].user_id = user_id
        /\ actions[i].last_finish_time # NULL
        /\ UtcDate(actions[i].last_finish_time) = UtcDate(t)

\* SELECT COUNT(*) FROM practice_record r JOIN practice_action a ...
\*   WHERE r.action_id = $1 AND a.user_id = $2 AND DATE(r.finish_time) = DATE($3)
\* with $3 = now_utc().date()
can_finish_today(user_id, action_id, t) ==
    LET today == UtcDate(t)
        count == Cardinality({i \in RecordsOf(action_id) :
                     /\ action_id \in 1..Len(actions)
                     /\ actions[action_id].user_id = user_id
                     /\ DateIn(records[i].finish_time, session_tz) = today})
    IN count = 0

\* variant: today is the day that ends now, not the calendar date
today_completions_last_day(t) ==
    {i \in 1..Len(records) : records[i].finish_time > t - TicksPerDay}

\* WITH today_completions: rows of practice_record with
\* DATE(finish_time) = CURRENT_DATE
today_completions(t) ==
    {i \in 1..Len(records) :
        DateIn(records[i].finish_time, session_tz) = DateIn(t, session_tz)}

\* variant: completion_counts counts the completions of today only
StatsRow_counts_today(a, t) ==
    [id |-> actions[a].id, user_id |-> actions[a].user_id,
     name |-> actions[a].name, create_time |-> actions[a].create_time,
     last_finish_time |-> actions[a].last_finish_time,
     total_finished |-> Cardinality(RecordsOf(a) \cap today_completions(t)),
     finished_today |-> (RecordsOf(a) \cap today_completions(t)) # {}]

\* One joined row of the SELECT: the action, COALESCE(cc.total_count, 0) and
\* COALESCE(tc.completed, false)
StatsRow(a, t) ==
    [id |-> actions[a].id, user_id |-> actions[a].user_id,
     name |-> actions[a].name, create_time |-> actions[a].create_time,
     last_finish_time |-> actions[a].last_finish_time,
     total_finished |-> Cardinality(RecordsOf(a)),
     finished_today |-> (RecordsOf(a) \cap today_completions(t)) # {}]

\* LEFT JOIN today_completions tc ON a.id = tc.action_id: one row per matching
\* row of tc, and one row when nothing matches
Copies(a, t) ==
    LET k == Cardinality(RecordsOf(a) \cap today_completions(t))
    IN IF k = 0 THEN 1 ELSE k

RECURSIVE Repeat(_, _)
Repeat(x, k) == IF k = 0 THEN <<>> ELSE <<x>> \o Repeat(x, k - 1)

\* FROM practice_action a LEFT JOIN ... WHERE a.user_id = $1, before ORDER BY
RECURSIVE JoinRows(_, _, _)
JoinRows(user_id, t, a) ==
    IF a > Len(actions) THEN <<>>
    ELSE (IF actions[a].user_id = user_id
          THEN Repeat(StatsRow(a, t), Copies(a, t)) ELSE <<>>)
         \o JoinRows(user_id, t, a + 1)

\* variant: ORDER BY without NULLS LAST (DESC then puts the nulls first)
OrderBefore_nulls_first(r1, r2) ==
    IF r1.finished_today # r2.finished_today THEN ~ r1.finished_today
    ELSE IF r1.last_finish_time # r2.last_finish_time
         THEN IF r1.last_finish_time = NULL THEN TRUE
              ELSE IF r2.last_finish_time = NULL THEN FALSE
              ELSE r1.last_finish_time > r2.last_finish_time
    ELSE r1.create_time > r2.create_time

\* variant: ORDER BY without the finished_today key
OrderBefore_no_today_key(r1, r2) ==
    IF r1.last_finish_time # r2.last_finish_time
    THEN IF r1.last_finish_time = NULL THEN FALSE
         ELSE IF r2.last_finish_time = NULL THEN TRUE
         ELSE r1.last_finish_time > r2.last_finish_time
    ELSE r1.create_time > r2.create_time

\* ORDER BY finished_today ASC, last_finish_time DESC NULLS LAST, create_time DESC:
\* r1 must come before r2
OrderBefore(r1, r2) ==
    IF r1.finished_today # r2.finished_today THEN ~ r1.finished_today
    ELSE IF r1.last_finish_time # r2.last_finish_time
         THEN IF r1.last_finish_time = NULL THEN FALSE
              ELSE IF r2.last_finish_time = NULL THEN TRUE
              ELSE r1.last_finish_time > r2.last_finish_time
    ELSE r1.create_time > r2.create_time

\* list_actions_with_stats: every row order the ORDER BY allows (rows that are
\* equal on the three keys come in any order)
list_actions_with_stats(user_id, t) ==
    LET rows == JoinRows(user_id, t, 1)
        n == Len(rows)
    IN {s \in {[i \in 1..n |-> rows[f[i]]] : f \in Permutations(1..n)} :
           \A i, j \in 1..n : i < j => ~ OrderBefore(s[j], s[i])}

\* ---- db.rs: the records of an action ----

\* variant: the query has no JOIN on the owner of the action
RecordRows_any_owner(user_id, action_id) == RecordsOf(action_id)

\* the rows of practice_record the JOIN of get_practice_records keeps
RecordRows(user_id, action_id) ==
    {i \in RecordsOf(action_id) : action_exists(user_id, action_id)}

\* the orders of the rows ids in which finish_time never increases
RECURSIVE OrderedDesc(_)
OrderedDesc(ids) ==
    IF ids = {} THEN {<<>>}
    ELSE UNION {{<<records[i]>> \o rest : rest \in OrderedDesc(ids \ {i})} :
                i \in {i \in ids : \A j \in ids :
                                      records[i].finish_time >= records[j].finish_time}}

\* the orders of the rows ids, whatever their finish_time
RECURSIVE AnyOrder(_)
AnyOrder(ids) ==
    IF ids = {} THEN {<<>>}
    ELSE UNION {{<<records[i]>> \o rest : rest \in AnyOrder(ids \ {i})} : i \in ids}

\* variant: the query has no ORDER BY
get_practice_records_unordered(user_id, action_id) ==
    AnyOrder(RecordRows(user_id, action_id))

\* get_practice_records: every row order `ORDER BY r.finish_time DESC` allows
get_practice_records(user_id, action_id) ==
    OrderedDesc(RecordRows(user_id, action_id))

\* ---- operations ----

\* the zones the sessions of a pool may be in
TimeZones == {-1, 0, 1}

\* the locals of a request: auth_user.user_id, Path(id), req.name
Request(user_id, id, name) == [user_id |-> user_id, id |-> id, name |-> name]

\* the slot holds no request
NoRequest == Request(0, 0, "")

\* init_db: PgPool::connect(db_url) and the CREATE TABLE IF NOT EXISTS
\* statements on an empty data store.  No statement of db.rs sets the TimeZone
\* of a session: tz is the zone the deployment (db_url, the driver and the data
\* store) gives the sessions of the pool.
Started(tz) ==
    /\ users = <<>>
    /\ actions = <<>>
    /\ records = <<>>
    /\ clock = 0
    /\ session_tz = tz
    /\ pc = [p \in Procs |-> "idle"]
    /\ req = [p \in Procs |-> NoRequest]
    /\ action_ = [p \in Procs |-> 0]
    /\ today_ = [p \in Procs |-> 0]
    /\ can_ = [p \in Procs |-> FALSE]
    /\ now_ = [p \in Procs |-> 0]
    /\ began = 0
    /\ response = NoResponse
    /\ log = NoLog
    /\ header = NotExtracted
    /\ issued = {}

\* the sessions are in UTC, where DATE and CURRENT_DATE are the UTC dates
Init == Started(0)

zones == <<session_tz>>

reqvars == <<pc, req, action_, today_, can_, now_>>

\* the step answers r and writes no log line
Send(r) == response' = r /\ log' = NoLog

\* time passes
Tick ==
    /\ clock' = clock + 1
    /\ Send(NoResponse)
    /\ UNCHANGED <<users, actions, records, zones, reqvars>>

\* variant: the users table has no UNIQUE constraint on username
username_taken_unchecked(username) == FALSE

\* `username TEXT NOT NULL UNIQUE`: an INSERT of this username is rejected
username_taken(username) == \E i \in 1..Len(users) : users[i].username = username

\* register_user / create_user: hash_password, then INSERT INTO users, which a
\* duplicate username fails with a unique violation that `?` turns into the
\* response; otherwise the token of the new user is answered.  Ids are given
\* in the order of the rows inserted.
register_user(username, password) ==
    /\ IF username_taken(username)
       THEN /\ response' = ErrSqlx("register", 0, 0, UniqueViolation("users_username_key"))
            /\ log' = LogLine(UniqueViolation("users_username_key"))
            /\ UNCHANGED users
       ELSE /\ \E password_hash \in hash_password(password) :
                 users' = Append(users, [id |-> Len(users) + 1, username |-> username,
                                         password_hash |-> password_hash])
            /\ Send([Resp("register", Len(users) + 1, 0, "ok", "", 0, <<>>)
                        EXCEPT !.token = create_token(Len(users) + 1)])
    /\ UNCHANGED <<actions, records, clock, zones, reqvars>>

\* SELECT ... FROM users WHERE username = $1, fetch_optional: the row position
\* or 0
get_user_by_username(username) ==
    IF \E i \in 1..Len(users) : users[i].username = username
    THEN CHOOSE i \in 1..Len(users) : users[i].username = username
    ELSE 0

\* login_user: get_user_by_username(...).ok_or_else(401), verify_password or
\* 401, then the token of the user is answered
login_user(username, password) ==
    /\ LET user == get_user_by_username(username)
       IN IF user = 0
          THEN Send(Resp("login", 0, 0, "Unauthorized", "Invalid credentials", 0, <<>>))
          ELSE IF ~ verify_password(password, users[user].password_hash)
          THEN Send(Resp("login", 0, 0, "Unauthorized", "Invalid credentials", 0, <<>>))
          ELSE Send([Resp("login", users[user].id, 0, "ok", "", 0, <<>>)
                        EXCEPT !.token = create_token(users[user].id)])
    /\ UNCHANGED <<users, actions, records, clock, zones, reqvars>>

\* list_actions / list_actions_with_stats
list_actions(user_id) ==
    /\ \E rows \in list_actions_with_stats(user_id, clock) :
          Send(Resp("list", user_id, 0, "ok", "", 0, rows))
    /\ UNCHANGED <<users, actions, records, clock, zones, reqvars>>

\* get_action / get_practice_action: Json(Option<PracticeAction>), the empty
\* row list standing for null
get_action(user_id, id) ==
    /\ Send(Resp("get_action", user_id, id, "ok", "", 0,
                 IF get_practice_action(user_id, id) = 0
                 THEN <<>> ELSE <<actions[get_practice_action(user_id, id)]>>))
    /\ UNCHANGED <<users, actions, records, clock, zones, reqvars>>

\* get_action_records / get_practice_records
get_action_records(user_id, id) ==
    /\ \E rows \in get_practice_records(user_id, id) :
          Send(Resp("records", user_id, id, "ok", "", 0, rows))
    /\ UNCHANGED <<users, actions, records, clock, zones, reqvars>>

\* the handler returns: its locals are dropped
Leave(p) ==
    /\ pc' = [pc EXCEPT ![p] = "idle"]
    /\ req' = [req EXCEPT ![p] = NoRequest]
    /\ action_' = [action_ EXCEPT ![p] = 0]
    /\ today_' = [today_ EXCEPT ![p] = 0]
    /\ can_' = [can_ EXCEPT ![p] = FALSE]
    /\ now_' = [now_ EXCEPT ![p] = 0]

\* the handler returns and the response is sent
Return(p, r) == Leave(p) /\ Send(r)

\* a statement of finish_action comes back with a storage error: `?` returns
\* it through From<sqlx::Error>
Throw(p, err) ==
    /\ Leave(p)
    /\ response' = ErrSqlx("finish", req[p].user_id, req[p].id, err)
    /\ log' = LogLine(err)

\* create_action enters create_practice_action, which reads now = now_utc()
\* and sends its INSERT
create_action(p, user_id, name) ==
    /\ pc[p] = "idle"
    /\ pc' = [pc EXCEPT ![p] = "insert_action"]
    /\ req' = [req EXCEPT ![p] = Request(user_id, 0, name)]
    /\ now_' = [now_ EXCEPT ![p] = clock]
    /\ Send(NoResponse)
    /\ UNCHANGED <<users, actions, records, clock, zones, action_, today_, can_>>

\* create_practice_action: INSERT INTO practice_action (user_id, name,
\* create_time) VALUES ($1, $2, $3) RETURNING ..., with $3 = now; create_action
\* answers Json(action)
create_practice_action(p) ==
    /\ pc[p] = "insert_action"
    /\ actions' = Append(actions, [id |-> Len(actions) + 1, user_id |-> req[p].user_id,
                                   name |-> req[p].name, create_time |-> now_[p],
                                   last_finish_time |-> NULL])
    /\ Return(p, Resp("create_action", req[p].user_id, 0, "ok", "", 0,
                      <<actions'[Len(actions')]>>))
    /\ UNCHANGED <<users, records, clock, zones>>

\* finish_action, first statement: the request arrives and the data store
\* executes the SELECT of get_practice_action
FinishGetAction(p, user_id, id) ==
    /\ pc[p] = "idle"
    /\ pc' = [pc EXCEPT ![p] = "got_action"]
    /\ req' = [req EXCEPT ![p] = Request(user_id, id, "")]
    /\ action_' = [action_ EXCEPT ![p] = get_practice_action(user_id, id)]
    /\ Send(NoResponse)
    /\ UNCHANGED <<users, actions, records, clock, zones, today_, can_, now_>>

\* finish_action: the reply to the SELECT reaches the task:
\* .await?.ok_or_else(404), or, with the action found, can_finish_today reads
\* today = now_utc().date() and sends its COUNT
FinishOkOrElse(p) ==
    /\ pc[p] = "got_action"
    /\ IF action_[p] = 0
       THEN Return(p, ErrActionNotFound(req[p].user_id, req[p].id))
       ELSE /\ pc' = [pc EXCEPT ![p] = "can_finish"]
            /\ action_' = [action_ EXCEPT ![p] = 0]
            /\ today_' = [today_ EXCEPT ![p] = clock]
            /\ Send(NoResponse)
            /\ UNCHANGED <<req, can_, now_>>
    /\ UNCHANGED <<users, actions, records, clock, zones>>

\* finish_action, second statement: the data store executes the COUNT of
\* can_finish_today, for the date bound when it was sent
FinishCount(p) ==
    /\ pc[p] = "can_finish"
    /\ pc' = [pc EXCEPT ![p] = "counted"]
    /\ can_' = [can_ EXCEPT ![p] = can_finish_today(req[p].user_id, req[p].id, today_[p])]
    /\ today_' = [today_ EXCEPT ![p] = 0]
    /\ Send(NoResponse)
    /\ UNCHANGED <<users, actions, records, clock, zones, req, action_, now_>>

\* finish_action: the reply to the COUNT reaches the task: 409, or
\* create_practice_record reads now = now_utc() and sends its ownership check
FinishCanFinish(p) ==
    /\ pc[p] = "counted"
    /\ IF ~ can_[p]
       THEN Return(p, ErrAlreadyCompleted(req[p].user_id, req[p].id))
       ELSE /\ pc' = [pc EXCEPT ![p] = "create"]
            /\ can_' = [can_ EXCEPT ![p] = FALSE]
            /\ now_' = [now_ EXCEPT ![p] = clock]
            /\ Send(NoResponse)
            /\ UNCHANGED <<req, action_, today_>>
    /\ UNCHANGED <<users, actions, records, clock, zones>>

\* create_practice_record: SELECT EXISTS(...) ownership check
CreateVerifyOwner(p) ==
    /\ pc[p] = "create"
    /\ IF ~ action_exists(req[p].user_id, req[p].id)
       THEN Throw(p, RowNotFound)
       ELSE /\ pc' = [pc EXCEPT ![p] = "update"]
            /\ Send(NoResponse)
            /\ UNCHANGED <<req, action_, today_, can_, now_>>
    /\ UNCHANGED <<users, actions, records, clock, zones>>

\* variant: the UPDATE has no `id = $2` in its WHERE
CreateUpdate_every_action(p) ==
    /\ pc[p] = "update"
    /\ actions' = [i \in 1..Len(actions) |->
                     IF actions[i].user_id = req[p].user_id
                     THEN [actions[i] EXCEPT !.last_finish_time = now_[p]]
                     ELSE actions[i]]
    /\ pc' = [pc EXCEPT ![p] = "insert"]
    /\ Send(NoResponse)
    /\ UNCHANGED <<users, records, clock, zones, req, action_, today_, can_, now_>>

\* create_practice_record: UPDATE practice_action SET last_finish_time = $1
\*   WHERE id = $2 AND user_id = $3
CreateUpdate(p) ==
    /\ pc[p] = "update"
    /\ actions' = [i \in 1..Len(actions) |->
                     IF actions[i].id = req[p].id /\ actions[i].user_id = req[p].user_id
                     THEN [actions[i] EXCEPT !.last_finish_time = now_[p]]
                     ELSE actions[i]]
    /\ pc' = [pc EXCEPT ![p] = "insert"]
    /\ Send(NoResponse)
    /\ UNCHANGED <<users, records, clock, zones, req, action_, today_, can_, now_>>

\* variant: the statement is an upsert on action_id, which overwrites the
\* record the action has
CreateInsert_upsert(p) ==
    /\ pc[p] = "insert"
    /\ records' = IF RecordsOf(req[p].id) = {}
                  THEN Append(records, [id |-> Len(records) + 1, action_id |-> req[p].id,
                                        finish_time |-> now_[p], note |-> ""])
                  ELSE [i \in 1..Len(records) |->
                          IF records[i].action_id = req[p].id
                          THEN [records[i] EXCEPT !.finish_time = now_[p]]
                          ELSE records[i]]
    /\ Return(p, OkRecord(req[p].user_id, req[p].id, Len(records')))
    /\ UNCHANGED <<users, actions, clock, zones>>

\* variant: the INSERT binds user_id where action_id belongs
CreateInsert_binds_user_id(p) ==
    /\ pc[p] = "insert"
    /\ records' = Append(records, [id |-> Len(records) + 1, action_id |-> req[p].user_id,
                                   finish_time |-> now_[p], note |-> ""])
    /\ Return(p, OkRecord(req[p].user_id, req[p].id, Len(records) + 1))
    /\ UNCHANGED <<users, actions, clock, zones>>

\* create_practice_record: INSERT INTO practice_record ... RETURNING, then
\* finish_action answers with the record
CreateInsert(p) ==
    /\ pc[p] = "insert"
    /\ records' = Append(records, [id |-> Len(records) + 1, action_id |-> req[p].id,
                                   finish_time |-> now_[p], note |-> ""])
    /\ Return(p, OkRecord(req[p].user_id, req[p].id, Len(records) + 1))
    /\ UNCHANGED <<users, actions, clock, zones>>

\* the INSERT comes back with a storage error: `.await?` leaves
\* create_practice_record and From<sqlx::Error> answers
CreateInsertFails(p) ==
    /\ pc[p] = "insert"
    /\ \E err \in SqlxErrors : Throw(p, err)
    /\ UNCHANGED <<users, actions, records, clock, zones>>

\* the ids a finish request names: those of the actions and one that is not
\* an action
ActionIds == 1..(Len(actions) + 1)

InFlight == {p \in Procs : pc[p] # "idle"}

\* the create_action requests in flight
Creating == {p \in Procs : pc[p] = "insert_action"}

\* what a run has used of its bound: the rows written, the requests in flight,
\* each with the row it may still write, and the ticks
Work == Len(actions) + Len(records) + 2 * Cardinality(InFlight) + clock

\* a request is taken by the lowest free slot
Arrival(p) == \A q \in Procs : q < p => pc[q] # "idle"

\* the requests of these specifications come with the AuthUser they resolved to
authvars == <<header, issued>>

Next ==
    \/ Work < MaxWork /\ Tick /\ UNCHANGED <<began, authvars>>
    \/ \E n \in Usernames, pw \in Passwords :
          register_user(n, pw) /\ UNCHANGED <<began, authvars>>
    \/ \E p \in Procs, u \in UserIds, n \in ActionNames :
          /\ Work < MaxWork /\ Len(actions) + Cardinality(Creating) < MaxActions
          /\ Arrival(p)
          /\ create_action(p, u, n) /\ UNCHANGED <<began, authvars>>
    \/ \E p \in Procs : create_practice_action(p) /\ UNCHANGED <<began, authvars>>
    \/ \E u \in UserIds : list_actions(u) /\ UNCHANGED <<began, authvars>>
    \/ \E p \in Procs, u \in UserIds, id \in ActionIds :
          /\ Work < MaxWork /\ Arrival(p)
          /\ FinishGetAction(p, u, id) /\ UNCHANGED <<began, authvars>>
    \/ \E p \in Procs : FinishOkOrElse(p) /\ UNCHANGED <<began, authvars>>
    \/ \E p \in Procs : FinishCount(p) /\ UNCHANGED <<began, authvars>>
    \/ \E p \in Procs : FinishCanFinish(p) /\ UNCHANGED <<began, authvars>>
    \/ \E p \in Procs : CreateVerifyOwner(p) /\ UNCHANGED <<began, authvars>>
    \/ \E p \in Procs : CreateUpdate(p) /\ UNCHANGED <<began, authvars>>
    \/ \E p \in Procs : CreateInsert(p) /\ UNCHANGED <<began, authvars>>

Spec == Init /\ [][Next]_vars

\* began forgets the time the call began when the request is answered
Answer(p) == began' = (IF pc'[p] = "idle" THEN 0 ELSE began) /\ UNCHANGED authvars

\* one user, and every request is answered before the next one arrives; began
\* keeps the time the finish request in flight arrived (0 for a create_action)
SeqNext ==
    \/ Work < SeqMaxWork /\ Tick /\ UNCHANGED <<began, authvars>>
    \/ \E n \in SeqUsernames, pw \in Passwords :
          InFlight = {} /\ register_user(n, pw) /\ UNCHANGED <<began, authvars>>
    \/ \E p \in Procs, u \in UserIds, n \in ActionNames :
          /\ Work < SeqMaxWork /\ Len(actions) < SeqMaxActions /\ InFlight = {}
          /\ Arrival(p)
          /\ create_action(p, u, n) /\ UNCHANGED <<began, authvars>>
    \/ \E p \in Procs : create_practice_action(p) /\ Answer(p)
    \/ \E u \in UserIds : InFlight = {} /\ list_actions(u) /\ UNCHANGED <<began, authvars>>
    \/ \E p \in Procs, u \in UserIds, id \in ActionIds :
          /\ Work < SeqMaxWork /\ InFlight = {} /\ Arrival(p)
          /\ FinishGetAction(p, u, id)
          /\ began' = clock /\ UNCHANGED authvars
    \/ \E p \in Procs : FinishOkOrElse(p) /\ Answer(p)
    \/ \E p \in Procs : FinishCount(p) /\ Answer(p)
    \/ \E p \in Procs : FinishCanFinish(p) /\ Answer(p)
    \/ \E p \in Procs : CreateVerifyOwner(p) /\ Answer(p)
    \/ \E p \in Procs : CreateUpdate(p) /\ Answer(p)
    \/ \E p \in Procs : CreateInsert(p) /\ Answer(p)

SeqSpec == Init /\ [][SeqNext]_vars

\* Spec with one request in flight at a time, a request in flight counted
\* within MaxWork, and the INSERT of create_practice_record may fail
FaultNext ==
    \/ Next /\ Cardinality(InFlight') <= 1 /\ Work' <= MaxWork
    \/ \E p \in Procs : CreateInsertFails(p) /\ UNCHANGED <<began, authvars>>

FaultSpec == Init /\ [][FaultNext]_vars

\* Spec for one user, with the two handlers that read one action
ReadNext ==
    \/ Next /\ Len(users') <= 1
    \/ \E u \in UserIds, id \in ActionIds :
          get_action(u, id) /\ UNCHANGED <<began, authvars>>
    \/ \E u \in UserIds, id \in ActionIds :
          get_action_records(u, id) /\ UNCHANGED <<began, authvars>>

ReadSpec == Init /\ [][ReadNext]_vars

\* Spec with one request in flight at a time, a request in flight counted
\* within MaxWork, and the two handlers that read one action
IsoNext ==
    \/ Next /\ Cardinality(InFlight') <= 1 /\ Work' <= MaxWork
    \/ \E u \in UserIds, id \in ActionIds :
          get_action(u, id) /\ UNCHANGED <<began, authvars>>
    \/ \E u \in UserIds, id \in ActionIds :
          get_action_records(u, id) /\ UNCHANGED <<began, authvars>>

IsoSpec == Init /\ [][IsoNext]_vars

\* the service started with the sessions in any of the zones
TzInit == \E tz \in TimeZones : Started(tz)

\* Spec for one user
TzNext == Next /\ Len(users') <= 1

TzSpec == TzInit /\ [][TzNext]_vars

\* ---- the requests as they arrive, Authorization header first ----

\* the headers a client sends that holds the tokens handed out but not the
\* service's secret: no header, a token without the Bearer prefix, a token
\* cut after its second segment, a token signed with another secret, a token
\* whose subject was edited, and the tokens themselves
Headers ==
    {NoHeader}
    \cup {Header(TRUE, "", i.token) : i \in issued}
    \cup {Bearer(Token(2, "HS256", i.user_id, NULL, <<>>)) : i \in issued}
    \cup {Bearer(encode("HS256", i.user_id, NULL, OtherSecret)) : i \in issued}
    \cup {Bearer([i.token EXCEPT !.sub = j.user_id]) : i, j \in issued}
    \cup {Bearer(i.token) : i \in issued}

\* the extractor of a handler with an AuthUser argument, on header h
AuthUser(h) == from_request_parts(h, clock)

\* the extractor rejects the request to op: the rejection is the response and
\* the handler is not entered
Rejects(h, op) ==
    /\ ~ AuthUser(h).ok
    /\ Send(ErrUnauthorized(op, AuthUser(h).message))
    /\ UNCHANGED <<users, actions, records, clock, zones, reqvars>>

\* register_user and login_user hand out the token of their response
Issue ==
    issued' = IF response'.status = "ok"
              THEN issued \cup {[token |-> response'.token,
                                 user_id |-> response'.user_id, at |-> clock]}
              ELSE issued

\* a step in which no extractor runs and no token is handed out
Internal == header' = NotExtracted /\ UNCHANGED <<began, issued>>

\* what a run of AuthSpec has used of its bound: Work and the tokens login_user
\* handed out
AuthWork == Work + Cardinality(issued) - Len(users)

\* every request is answered before the next one arrives
AuthNext ==
    \/ AuthWork < AuthMaxWork /\ Tick /\ Internal
    \/ \E n \in Usernames, pw \in Passwords :
          /\ InFlight = {}
          /\ register_user(n, pw) /\ Issue /\ header' = NotExtracted /\ UNCHANGED began
    \/ \E n \in Usernames, pw \in LoginPasswords :
          /\ AuthWork < AuthMaxWork /\ InFlight = {}
          /\ login_user(n, pw) /\ Issue /\ header' = NotExtracted /\ UNCHANGED began
    \/ \E h \in Headers :
          /\ AuthWork < AuthMaxWork /\ Len(actions) < AuthMaxActions /\ InFlight = {}
          /\ \/ /\ AuthUser(h).ok
                /\ \E p \in Procs, n \in ActionNames :
                      Arrival(p) /\ create_action(p, AuthUser(h).user_id, n)
             \/ Rejects(h, "create_action")
          /\ header' = h /\ UNCHANGED <<began, issued>>
    \/ \E p \in Procs : create_practice_action(p) /\ Internal
    \/ \E h \in Headers :
          /\ InFlight = {}
          /\ \/ AuthUser(h).ok /\ list_actions(AuthUser(h).user_id)
             \/ Rejects(h, "list")
          /\ header' = h /\ UNCHANGED <<began, issued>>
    \/ \E h \in Headers :
          /\ InFlight = {}
          /\ \/ /\ AuthUser(h).ok
                /\ \E id \in ActionIds : get_action(AuthUser(h).user_id, id)
             \/ Rejects(h, "get_action")
          /\ header' = h /\ UNCHANGED <<began, issued>>
    \/ \E h \in Headers :
          /\ InFlight = {}
          /\ \/ /\ AuthUser(h).ok
                /\ \E id \in ActionIds : get_action_records(AuthUser(h).user_id, id)
             \/ Rejects(h, "records")
          /\ header' = h /\ UNCHANGED <<began, issued>>
    \/ \E h \in Headers :
          /\ AuthWork < AuthMaxWork /\ InFlight = {}
          /\ \/ /\ AuthUser(h).ok
                /\ \E p \in Procs, id \in ActionIds :
                      Arrival(p) /\ FinishGetAction(p, AuthUser(h).user_id, id)
             \/ Rejects(h, "finish")
          /\ header' = h /\ UNCHANGED <<began, issued>>
    \/ \E p \in Procs : FinishOkOrElse(p) /\ Internal
    \/ \E p \in Procs : FinishCount(p) /\ Internal
    \/ \E p \in Procs : FinishCanFinish(p) /\ Internal
    \/ \E p \in Procs : CreateVerifyOwner(p) /\ Internal
    \/ \E p \in Procs : CreateUpdate(p) /\ Internal
    \/ \E p \in Procs : CreateInsert(p) /\ Internal

AuthSpec == Init /\ [][AuthNext]_vars

\* ---- properties ----

\* rows of a practice_record table recs of action a whose finish_time is on
\* the UTC calendar date d
RecordsOn(recs, a, d) ==
    {i \in 1..Len(recs) : recs[i].action_id = a /\ UtcDate(recs[i].finish_time) = d}

Days == 0..SeqMaxWork

\* the finish request in slot p is answered in this step
Answered(p) ==
    pc[p] \in {"can_finish", "counted", "create", "update", "insert"} /\ pc'[p] = "idle"

\* C1: under every interleaving of concurrent finish requests there is at most
\* one PracticeRecord per action and UTC calendar date.
AtMostOneRecordPerDay ==
    \A a \in 1..Len(actions), d \in Days : Cardinality(RecordsOn(records, a, d)) <= 1

\* C2: when finish is called by the owner, one call after the other, within
\* one UTC calendar date, the call that finds no record of the action on that
\* date succeeds and leaves exactly one such record, whose id it returns, and
\* the call that follows it fails with Conflict and leaves that one record.
SequentialFinishTwice ==
    [][\A p \in Procs :
         Answered(p) /\ UtcDate(began) = UtcDate(clock) =>
           LET a == req[p].id
               d == UtcDate(clock)
           IN IF RecordsOn(records, a, d) = {}
              THEN /\ response'.status = "ok"
                   /\ RecordsOn(records', a, d) = {response'.record}
              ELSE /\ response' = ErrAlreadyCompleted(req[p].user_id, a)
                   /\ records' = records
                   /\ Cardinality(RecordsOn(records, a, d)) = 1]_vars

\* C2 witness: a second finish of the day was answered with Conflict and the
\* action has exactly one record on that date
SecondFinishRejected ==
    /\ response.op = "finish"
    /\ response.status = "Conflict"
    /\ Cardinality(RecordsOn(records, response.id, UtcDate(clock))) = 1

\* C3: the last_finish_time update and the record insert are atomic: in every
\* reachable state an action's last_finish_time is set only if a record with
\* that finish_time exists, also when the insert fails after the update.
FinishWritesAtomic ==
    \A a \in 1..Len(actions) :
        actions[a].last_finish_time # NULL =>
            \E i \in RecordsOf(a) : records[i].finish_time = actions[a].last_finish_time

RECURSIVE MaxOf(_)
MaxOf(S) ==
    LET x == CHOOSE y \in S : TRUE
    IN IF S = {x} THEN x
       ELSE LET m == MaxOf(S \ {x}) IN IF x > m THEN x ELSE m

\* C4: once the requests have been answered, after any interleaving of
\* create_action and finish, a non-null last_finish_time equals the maximum
\* finish_time of the action's records, and an action without records has a
\* null last_finish_time.
LastFinishIsMax ==
    InFlight = {} =>
        \A a \in 1..Len(actions) :
            IF RecordsOf(a) = {} THEN actions[a].last_finish_time = NULL
            ELSE actions[a].last_finish_time # NULL =>
                   actions[a].last_finish_time =
                       MaxOf({records[i].finish_time : i \in RecordsOf(a)})

\* the action id names no action of that user
NotOwned(user_id, id) ==
    id \notin 1..Len(actions) \/ actions[id].user_id # user_id

\* the finish request in slot p is past get_practice_action(...).ok_or_else
PastOwnerCheck(p) == pc[p] \in {"can_finish", "counted", "create", "update", "insert"}

\* C5: a finish on an action of another user is answered NotFound, with the
\* very answer given for an id that does not exist, and no action and no
\* record changes: the SELECT of such a request finds no row, whatever the
\* other requests do before its reply is read the request gets no further than
\* ok_or_else, which answers 404 "Action not found" and writes nothing, and no
\* request past ok_or_else names an action its user does not own.
ForeignFinishNotFound ==
    /\ [](\A p \in Procs :
            /\ PastOwnerCheck(p) => ~ NotOwned(req[p].user_id, req[p].id)
            /\ pc[p] = "got_action" /\ NotOwned(req[p].user_id, req[p].id) =>
                  action_[p] = 0)
    /\ [][\A p \in Procs :
            pc[p] = "got_action" /\ action_[p] = 0 /\ pc'[p] # pc[p] =>
              /\ pc'[p] = "idle"
              /\ response' = ErrActionNotFound(req[p].user_id, req[p].id)
              /\ UNCHANGED <<users, actions, records>>]_vars
    /\ [][response'.op = "finish" /\ NotOwned(response'.user_id, response'.id) =>
             /\ response'.status = "NotFound"
             /\ response'.message = "Action not found"
             /\ response'.record = 0
             /\ actions' = actions
             /\ records' = records]_vars

\* C5 witness: a finish on an existing action of another user was answered
ForeignFinishAnswered ==
    /\ response.op = "finish"
    /\ response.id \in 1..Len(actions)
    /\ actions[response.id].user_id # response.user_id
    /\ response.status = "NotFound"

\* the action has a record on the UTC calendar date of the clock
FinishedToday(a) == RecordsOn(records, a, UtcDate(clock)) # {}

\* C6: list_with_stats puts every action not finished today before every
\* action finished today; within a group the order is last_finish_time
\* descending with the nulls last; entries equal on both are in create_time
\* descending order.
ListOrdering ==
    response.op = "list" =>
        \A i, j \in 1..Len(response.rows) :
            i < j =>
              LET x == response.rows[i]
                  y == response.rows[j]
              IN /\ FinishedToday(x.id) => FinishedToday(y.id)
                 /\ FinishedToday(x.id) = FinishedToday(y.id) =>
                      /\ x.last_finish_time = NULL => y.last_finish_time = NULL
                      /\ y.last_finish_time # NULL => x.last_finish_time >= y.last_finish_time
                      /\ x.last_finish_time = y.last_finish_time => x.create_time >= y.create_time

\* C6 witness: a listing where an action last finished on an earlier day comes
\* before a never finished one
ListedNullAfterFinished ==
    /\ response.op = "list"
    /\ \E i, j \in 1..Len(response.rows) :
          /\ i < j
          /\ ~ FinishedToday(response.rows[i].id)
          /\ response.rows[i].last_finish_time # NULL
          /\ response.rows[j].last_finish_time = NULL

\* A was created first and never finished, B was last finished two days ago,
\* C was finished today, and the user has no other action
ScenarioABC(u, A, B, C) ==
    /\ {a \in 1..Len(actions) : actions[a].user_id = u} = {A, B, C}
    /\ A # B /\ B # C /\ A # C
    /\ A < B /\ A < C
    /\ actions[A].last_finish_time = NULL /\ RecordsOf(A) = {}
    /\ actions[B].last_finish_time # NULL
    /\ UtcDate(actions[B].last_finish_time) + 2 = UtcDate(clock)
    /\ ~ FinishedToday(B)
    /\ actions[C].last_finish_time # NULL
    /\ UtcDate(actions[C].last_finish_time) = UtcDate(clock)
    /\ FinishedToday(C)

ListedIds == [i \in 1..Len(response.rows) |-> response.rows[i].id]

\* C7 as stated: with A never finished and created first, B last finished two
\* days ago and C finished today, list_with_stats returns [A, B, C].
ListsABC ==
    response.op = "list" =>
        \A A, B, C \in 1..Len(actions) :
            ScenarioABC(response.user_id, A, B, C) => ListedIds = <<A, B, C>>

\* C7 amended: in that case list_with_stats returns [B, A, C]: among the
\* actions not finished today the never finished one comes last.
ListsBAC ==
    response.op = "list" =>
        \A A, B, C \in 1..Len(actions) :
            ScenarioABC(response.user_id, A, B, C) => ListedIds = <<B, A, C>>

\* C7 witness: the listing of a user whose actions are such A, B and C
ListedScenarioABC ==
    /\ response.op = "list"
    /\ \E A, B, C \in 1..Len(actions) : ScenarioABC(response.user_id, A, B, C)

\* C8: every action of the caller has an entry, and every entry has
\* total_finished = the number of records of its action and finished_today
\* true exactly when one of them is on the UTC calendar date of the query.
ListStats ==
    response.op = "list" =>
        /\ \A a \in 1..Len(actions) :
              actions[a].user_id = response.user_id =>
                  \E i \in 1..Len(response.rows) : response.rows[i].id = a
        /\ \A i \in 1..Len(response.rows) :
              LET x == response.rows[i]
              IN /\ x.id \in 1..Len(actions)
                 /\ x.total_finished =
                        Cardinality({k \in 1..Len(records) : records[k].action_id = x.id})
                 /\ x.finished_today <=> FinishedToday(x.id)

\* C8 witness: a listing with an entry that counts two records, one of an
\* earlier day and one of today
ListedTwoCompletions ==
    /\ response.op = "list"
    /\ \E i \in 1..Len(response.rows) :
          /\ response.rows[i].total_finished = 2
          /\ response.rows[i].finished_today
          /\ \E k \in RecordsOf(response.rows[i].id) :
                UtcDate(records[k].finish_time) < UtcDate(clock)

Owner(a) == actions[a].user_id

\* C9: after a finish succeeded at T, can_finish_today of that action is false
\* at every later clock on T's UTC calendar date, and on the following date
\* it is true (until a finish of that date succeeds).
FinishedUntilNextDay ==
    \A k \in 1..Len(records) :
        LET a == records[k].action_id
            T == records[k].finish_time
        IN /\ UtcDate(clock) = UtcDate(T) => ~ can_finish_today(Owner(a), a, clock)
           /\ UtcDate(clock) = UtcDate(T) + 1 /\ ~ FinishedToday(a) =>
                 can_finish_today(Owner(a), a, clock)

\* C9 witness: the day after a successful finish the action can be finished
EligibleAgainNextDay ==
    \E k \in 1..Len(records) :
        /\ UtcDate(clock) = UtcDate(records[k].finish_time) + 1
        /\ can_finish_today(Owner(records[k].action_id), records[k].action_id, clock)

\* C10 as stated: for every user and action, can_finish_today is true iff no
\* record of the action has a finish_time on the UTC calendar date of now.
CanFinishIffNoRecordToday ==
    \A u \in UserIds, a \in 1..Len(actions) :
        can_finish_today(u, a, clock) <=> ~ FinishedToday(a)

\* C10 amended: for the user who owns the action, can_finish_today is true
\* iff no record of the action is on the UTC calendar date of now, and it is
\* true for every user when the action has no record.
OwnerCanFinishIffNoRecordToday ==
    \A a \in 1..Len(actions) :
        /\ can_finish_today(Owner(a), a, clock) <=> ~ FinishedToday(a)
        /\ RecordsOf(a) = {} => \A u \in UserIds : can_finish_today(u, a, clock)

\* C10 witness: the owner cannot finish an action that has a record of today,
\* while it has an older record as well
OwnerBlockedToday ==
    \E a \in 1..Len(actions) :
        /\ FinishedToday(a)
        /\ ~ can_finish_today(Owner(a), a, clock)
        /\ \E k \in RecordsOf(a) : UtcDate(records[k].finish_time) < UtcDate(clock)

\* C11: a token issued for user U resolves to exactly U whenever it is
\* validated with the service's secret, however much later, and is never
\* rejected: the extractor accepts it at the current time and a request that
\* carries it is served as U.
IssuedTokenResolves ==
    \A i \in issued :
        /\ from_request_parts(Bearer(i.token), clock) =
               [ok |-> TRUE, user_id |-> i.user_id, message |-> ""]
        /\ header = Bearer(i.token) /\ response.op # "none" =>
               response.status # "Unauthorized" /\ response.user_id = i.user_id

\* a list request carrying a token is served as its user two days after the
\* token was issued
TokenServedDaysLater ==
    \E i \in issued :
        /\ UtcDate(clock) >= UtcDate(i.at) + 2
        /\ header = Bearer(i.token)
        /\ response.op = "list" /\ response.status = "ok"
        /\ response.user_id = i.user_id

\* the service's signature over the content of the token of a header
SignedByService(h) ==
    h.token.sig = Sign(JWT_SECRET, h.token.alg, h.token.sub, h.token.exp)

\* C12: a request to an authenticated operation whose Authorization header is
\* missing, lacks the Bearer prefix, is not a three-segment token or is not
\* signed with the service's secret is answered Unauthorized, resolves no
\* user and leaves the tables and the requests in flight as they were.
BadHeaderRejected ==
    [][(/\ header' # NotExtracted
        /\ \/ ~ header'.present
           \/ header'.scheme # "Bearer"
           \/ header'.token.segments # 3
           \/ ~ SignedByService(header'))
       => /\ response'.status = "Unauthorized"
          /\ response'.user_id = 0
          /\ UNCHANGED <<users, actions, records, pc, req, action_, today_, can_, now_>>]_vars

\* a finish request with a token for an existing user signed with another
\* secret was answered Unauthorized
ForgedTokenRejected ==
    /\ header.present /\ header.scheme = "Bearer" /\ header.token.segments = 3
    /\ header.token.sig = Sign(OtherSecret, header.token.alg, header.token.sub, header.token.exp)
    /\ header.token.sub \in UserIds
    /\ response.op = "finish" /\ response.status = "Unauthorized"
    /\ \E a \in 1..Len(actions) : actions[a].user_id = header.token.sub

\* C13: no two users share a username, and a registration either answers
\* Conflict and leaves the users table as it was, or adds one user whose
\* username no user had; registrations that arrive together are INSERT
\* statements the data store runs one after the other.
UsernamesUnique ==
    /\ [](\A i, j \in 1..Len(users) : users[i].username = users[j].username => i = j)
    /\ [][response'.op = "register" =>
            \/ /\ response'.status = "Conflict"
               /\ response'.message = "Resource already exists"
               /\ users' = users
            \/ /\ response'.status = "ok"
               /\ Len(users') = Len(users) + 1
               /\ SubSeq(users', 1, Len(users)) = users
               /\ \A i \in 1..Len(users) :
                     users[i].username # users'[Len(users')].username]_vars

\* a registration was answered Conflict while both usernames are taken
DuplicateRegistrationRejected ==
    /\ response.op = "register"
    /\ response.status = "Conflict"
    /\ {users[i].username : i \in 1..Len(users)} = Usernames

\* C14: practice records are append-only: every step keeps the records there
\* are, with their action_id, finish_time and note, and the table grows by
\* exactly one record in the step that answers a finish with success and in
\* no other step.
RecordsAppendOnly ==
    [][/\ Len(records') >= Len(records)
       /\ SubSeq(records', 1, Len(records)) = records
       /\ IF response'.op = "finish" /\ response'.status = "ok"
          THEN /\ Len(records') = Len(records) + 1
               /\ response'.record = records'[Len(records')].id
          ELSE records' = records]_vars

\* a finish was answered with success when the action already had a record
SecondRecordAppended ==
    /\ response.op = "finish" /\ response.status = "ok"
    /\ Cardinality(RecordsOf(response.id)) >= 2

\* C15: a finish by user U on action N that reads the time now changes
\* nothing but N's last_finish_time, which its UPDATE sets to now, and the
\* records table, to which its INSERT adds one record with action_id = N and
\* finish_time = now before it answers with that record: the users, every
\* other action, N's id, owner, name and create_time, and every record there
\* was are as before each of its steps.
FinishFrame ==
    [][\A p \in Procs :
         LET N == req[p].id
         IN /\ pc[p] = "update" /\ pc'[p] = "insert" =>
                 /\ actions' = [actions EXCEPT ![N].last_finish_time = now_[p]]
                 /\ actions[N].user_id = req[p].user_id
                 /\ UNCHANGED <<users, records>>
            /\ pc[p] = "insert" /\ pc'[p] = "idle" /\ response'.status = "ok" =>
                 /\ records' = Append(records, records'[Len(records')])
                 /\ records'[Len(records')].action_id = N
                 /\ records'[Len(records')].finish_time = now_[p]
                 /\ response'.record = records'[Len(records')].id
                 /\ UNCHANGED <<users, actions>>
            /\ pc[p] # pc'[p] /\ pc[p] \in {"idle", "got_action", "can_finish", "counted",
                                              "create"}
                             /\ pc'[p] # "insert_action" =>
                 UNCHANGED <<users, actions, records>>]_vars

\* a finish was answered with success for a user who has another action,
\* finished at another time
FinishedOneOfTwo ==
    /\ response.op = "finish" /\ response.status = "ok"
    /\ actions[response.id].last_finish_time = records[response.record].finish_time
    /\ \E a \in 1..Len(actions) :
          /\ a # response.id
          /\ actions[a].user_id = response.user_id
          /\ actions[a].last_finish_time # NULL
          /\ actions[a].last_finish_time # actions[response.id].last_finish_time

\* C16: every practice record belongs to an existing action, and the step
\* that adds a record is the INSERT of a finish request whose AuthUser is the
\* owner of the record's action: no request of a user adds a record to an
\* action of another user.
RecordsByOwner ==
    /\ [](\A i \in 1..Len(records) :
            \E a \in 1..Len(actions) : actions[a].id = records[i].action_id)
    /\ [][Len(records') > Len(records) =>
            LET r == records'[Len(records')]
            IN \E p \in Procs :
                  /\ pc[p] = "insert" /\ pc'[p] = "idle"
                  /\ req[p].id = r.action_id
                  /\ req[p].user_id = actions[r.action_id].user_id
                  /\ response'.op = "finish"
                  /\ response'.user_id = actions[r.action_id].user_id]_vars

\* the second user finished an action of theirs while the first user has an
\* action too
SecondUserFinished ==
    /\ response.op = "finish" /\ response.status = "ok"
    /\ response.user_id = 2
    /\ actions[records[response.record].action_id].user_id = 2
    /\ \E a \in 1..Len(actions) : actions[a].user_id = 1

\* C17: a storage error that reaches a caller is answered in the typed
\* taxonomy: a unique-constraint violation as Conflict, a missing row as
\* NotFound, and every other storage error as Internal with the fixed message
\* "Internal server error"; the text of the storage error is in the log line
\* only, never in the response.
StorageErrorsTranslated ==
    log # NoLog =>
        /\ \E e \in SqlxErrors : log = LogLine(e)
        /\ \A e \in SqlxErrors :
              log = LogLine(e) =>
                /\ IF e.kind = "Database" /\ e.code = "23505"
                   THEN response.status = "Conflict" /\ response.message = "Resource already exists"
                   ELSE IF e.kind = "RowNotFound"
                   THEN response.status = "NotFound" /\ response.message = "Not found"
                   ELSE response.status = "Internal" /\ response.message = "Internal server error"
                /\ response.message # e.detail /\ response.message # Display(e)
        /\ response.message # log.text
        /\ response.rows = <<>> /\ response.record = 0

\* the INSERT of a finish failed with a database error that is not a unique
\* violation and the request was answered Internal
InsertFailedInternal ==
    /\ log = LogLine(ForeignKeyViolation)
    /\ response.op = "finish"
    /\ response = ErrInternal(response.user_id, response.id)

\* C18: a listing for user U has exactly one entry for each action U owns,
\* also when an action has more than one record on the current date, and no
\* entry for an action of another user.
ListsEachActionOnce ==
    response.op = "list" =>
        /\ \A a \in 1..Len(actions) :
              actions[a].user_id = response.user_id =>
                  Cardinality({i \in 1..Len(response.rows) : response.rows[i].id = a}) = 1
        /\ \A i \in 1..Len(response.rows) :
              /\ response.rows[i].id \in 1..Len(actions)
              /\ actions[response.rows[i].id].user_id = response.user_id

\* the action has a record whose date in the zone of the sessions is d
RecordOnSessionDate(a, d) ==
    \E k \in RecordsOf(a) : DateIn(records[k].finish_time, session_tz) = d

TotalFinishedCountsRecords ==
    /\ response.op = "list" =>
          \A i \in 1..Len(response.rows) :
              \A rs \in get_practice_records(response.user_id, response.rows[i].id) :
                  Len(rs) = response.rows[i].total_finished
    /\ response.op = "records" =>
          /\ \A i, j \in 1..Len(response.rows) :
                i < j => response.rows[i].finish_time >= response.rows[j].finish_time
          /\ \A s \in list_actions_with_stats(response.user_id, clock) :
                \A i \in 1..Len(s) :
                    s[i].id = response.id => s[i].total_finished = Len(response.rows)

\* the records of an action of the caller were returned: two of them, of
\* different times, the later one first
RecordsReturnedLatestFirst ==
    /\ response.op = "records"
    /\ Len(response.rows) = 2
    /\ response.rows[1].finish_time > response.rows[2].finish_time
    /\ response.rows[1].id > response.rows[2].id
    /\ actions[response.id].user_id = response.user_id

\* the actions of user U and the records of those actions
OwnActions(U) == {a \in 1..Len(actions) : actions[a].user_id = U}
OwnRecords(U) == {i \in 1..Len(records) : records[i].action_id \in OwnActions(U)}
OwnData(U) == <<{actions[a] : a \in OwnActions(U)}, {records[i] : i \in OwnRecords(U)}>>

\* what the three read operations return to user U for the ids a request can
\* name
ReadResults(U) ==
    <<list_actions_with_stats(U, clock),
      [id \in 1..(MaxActions + 1) |->
          IF get_practice_action(U, id) = 0 THEN <<>>
          ELSE <<actions[get_practice_action(U, id)]>>],
      [id \in 1..(MaxActions + 1) |-> get_practice_records(U, id)]>>

\* C21: what user U reads depends on U's own actions and their records only:
\* get_action on an action of another user answers null and
\* get_action_records on it answers the empty list, every answer to U is made
\* of U's actions and of records of U's actions, and a step that writes to
\* the actions or records of other users only leaves every result of U's
\* three read operations as it was.
ReadsOwnDataOnly ==
    /\ [](LET U == response.user_id
          IN /\ response.op = "get_action" =>
                  response.rows = IF response.id \in OwnActions(U)
                                  THEN <<actions[response.id]>> ELSE <<>>
             /\ response.op = "records" =>
                  /\ {response.rows[i] : i \in 1..Len(response.rows)} =
                        {records[i] : i \in {k \in OwnRecords(U) :
                                                records[k].action_id = response.id}}
                  /\ response.id \notin OwnActions(U) => response.rows = <<>>
             /\ response.op = "list" =>
                  /\ {response.rows[i].id : i \in 1..Len(response.rows)} = OwnActions(U)
                  /\ \A i \in 1..Len(response.rows) :
                        response.rows[i].total_finished =
                            Cardinality({k \in OwnRecords(U) :
                                            records[k].action_id = response.rows[i].id}))
    /\ [][<<actions, records>>' # <<actions, records>> =>
            \A U \in UserIds :
                clock' = clock /\ OwnData(U)' = OwnData(U) =>
                    ReadResults(U)' = ReadResults(U)]_vars

\* a user asked for the records of an action of another user, which has a
\* record, and was answered the empty list
ForeignRecordsEmpty ==
    /\ response.op = "records"
    /\ response.rows = <<>>
    /\ response.id \in 1..Len(actions)
    /\ actions[response.id].user_id # response.user_id
    /\ RecordsOf(response.id) # {}
    /\ OwnActions(response.user_id) # {}
====
